---- MODULE Spec2Model ----
(***************************************************************************)
(* Model of nipype/interfaces/dtitk/registration.py: eight command-line    *)
(* wrappers (input spec tables, argument rendering, _list_outputs).        *)
(* Strings are sequences of one-character strings, so that replace,        *)
(* abspath and fname_presuffix are computed character by character.        *)
(***************************************************************************)
EXTENDS Integers, Sequences, FiniteSets, TLC

\* ------------------------------------------------------------------------
\* String literals used by the source
\* ------------------------------------------------------------------------
NII_GZ == <<".", "n", "i", "i", ".", "g", "z">>
TAR_GZ == <<".", "t", "a", "r", ".", "g", "z">>
DF_NII_GZ == <<".", "d", "f">> \o NII_GZ
AFF == <<".", "a", "f", "f">>
AFF_NII_GZ == <<"_", "a", "f", "f">> \o NII_GZ
AFF_DIFFEO_DF_NII_GZ == <<"_", "a", "f", "f", "_", "d", "i", "f", "f", "e", "o", ".", "d", "f">> \o NII_GZ
AFF_DIFFEO_NII_GZ == <<"_", "a", "f", "f", "_", "d", "i", "f", "f", "e", "o">> \o NII_GZ
COMBO_DF_NII_GZ == <<"_", "c", "o", "m", "b", "o", ".", "d", "f">> \o NII_GZ
DIFFEOXFMD == <<"_", "d", "i", "f", "f", "e", "o", "x", "f", "m", "d">>
AFFXFMD == <<"_", "a", "f", "f", "x", "f", "m", "d">>
COMBOAFF == <<"_", "c", "o", "m", "b", "o", "a", "f", "f">>

\* traits.Undefined: the value of an input that was never assigned
Undefined == <<"<undefined>">>

isdefined(v) == v # Undefined

\* ------------------------------------------------------------------------
\* Python string and path functions, as the code calls them
\* ------------------------------------------------------------------------
StartsWith(s, p) == Len(s) >= Len(p) /\ SubSeq(s, 1, Len(p)) = p

EndsWith(s, p) == Len(s) >= Len(p) /\ SubSeq(s, Len(s) - Len(p) + 1, Len(s)) = p

\* str.replace(old, new): every non-overlapping occurrence, left to right
RECURSIVE Replace(_, _, _)
Replace(s, old, new) ==
    IF Len(s) < Len(old) THEN s
    ELSE IF StartsWith(s, old) THEN new \o Replace(SubSeq(s, Len(old) + 1, Len(s)), old, new)
    ELSE <<Head(s)>> \o Replace(Tail(s), old, new)

\* index of the last c in s, 0 when there is none (str.rfind + 1)
RECURSIVE RFind(_, _)
RFind(s, c) ==
    IF s = <<>> THEN 0
    ELSE IF s[Len(s)] = c THEN Len(s)
    ELSE RFind(SubSeq(s, 1, Len(s) - 1), c)

\* str.split('/')
RECURSIVE Split(_)
Split(s) ==
    LET i == RFind(s, "/")
    IN IF i = 0 THEN <<s>>
       ELSE Split(SubSeq(s, 1, i - 1)) \o <<SubSeq(s, i + 1, Len(s))>>

\* '/'.join(comps)
RECURSIVE JoinComps(_)
JoinComps(comps) ==
    IF comps = <<>> THEN <<>>
    ELSE IF Len(comps) = 1 THEN comps[1]
    ELSE comps[1] \o <<"/">> \o JoinComps(Tail(comps))

isabs(p) == StartsWith(p, <<"/">>)

\* posixpath.join(a, b)
join(a, b) ==
    IF isabs(b) THEN b
    ELSE IF a = <<>> \/ EndsWith(a, <<"/">>) THEN a \o b
    ELSE a \o <<"/">> \o b

\* the component loop of posixpath.normpath
RECURSIVE NormComps(_, _, _)
NormComps(comps, acc, initial) ==
    IF comps = <<>> THEN acc
    ELSE LET c == Head(comps)
             rest == Tail(comps)
         IN IF c = <<>> \/ c = <<".">> THEN NormComps(rest, acc, initial)
            ELSE IF \/ c # <<".", ".">>
                    \/ (initial = 0 /\ acc = <<>>)
                    \/ (acc # <<>> /\ acc[Len(acc)] = <<".", ".">>)
                 THEN NormComps(rest, Append(acc, c), initial)
            ELSE IF acc # <<>> THEN NormComps(rest, SubSeq(acc, 1, Len(acc) - 1), initial)
            ELSE NormComps(rest, acc, initial)

\* posixpath.normpath
normpath(p) ==
    IF p = <<>> THEN <<".">>
    ELSE LET initial == IF ~isabs(p) THEN 0
                        ELSE IF StartsWith(p, <<"/", "/">>) /\ ~StartsWith(p, <<"/", "/", "/">>)
                             THEN 2 ELSE 1
             body == JoinComps(NormComps(Split(p), <<>>, initial))
             res == (IF initial = 2 THEN <<"/", "/">> ELSE IF initial = 1 THEN <<"/">> ELSE <<>>) \o body
         IN IF res = <<>> THEN <<".">> ELSE res

\* os.path.abspath under working directory cwd_
abspath(cwd_, p) == normpath(IF isabs(p) THEN p ELSE join(cwd_, p))

\* os.path.basename / os.path.dirname
basename(p) == SubSeq(p, RFind(p, "/") + 1, Len(p))

RECURSIVE RStripSlash(_)
RStripSlash(s) ==
    IF s # <<>> /\ s[Len(s)] = "/" THEN RStripSlash(SubSeq(s, 1, Len(s) - 1)) ELSE s

AllSlashes(s) == \A i \in 1..Len(s) : s[i] = "/"

dirname(p) ==
    LET head == SubSeq(p, 1, RFind(p, "/"))
    IN IF head # <<>> /\ ~AllSlashes(head) THEN RStripSlash(head) ELSE head

\* os.path.splitext on a name without directory part: <<root, ext>>
splitext(f) ==
    LET dot == RFind(f, ".")
    IN IF dot > 0 /\ \E i \in 1..(dot - 1) : f[i] # "."
       THEN <<SubSeq(f, 1, dot - 1), SubSeq(f, dot, Len(f))>>
       ELSE <<f, <<>>>>

\* nipype.utils.filemanip.split_filename: <<pth, fname, ext>>
split_filename(f) ==
    LET pth == dirname(f)
        b == basename(f)
        Special(e) == Len(b) > Len(e) /\ EndsWith(b, e)
    IN IF Special(NII_GZ) THEN <<pth, SubSeq(b, 1, Len(b) - Len(NII_GZ)), NII_GZ>>
       ELSE IF Special(TAR_GZ) THEN <<pth, SubSeq(b, 1, Len(b) - Len(TAR_GZ)), TAR_GZ>>
       ELSE <<pth, splitext(b)[1], splitext(b)[2]>>

\* nipype.utils.filemanip.fname_presuffix(fname, suffix=..., newpath=...)
fname_presuffix(cwd_, f, suffix, newpath) ==
    LET sp == split_filename(f)
        pth == IF newpath # <<>> THEN abspath(cwd_, newpath) ELSE sp[1]
    IN join(pth, sp[2] \o suffix \o sp[3])

\* ------------------------------------------------------------------------
\* Input specs.  Each is the sequence of declared traits in the order
\* _parse_inputs visits them (sorted by name); argstr holds the text that
\* precedes %s, values the members of an Enum ({} for a Str).
\* ------------------------------------------------------------------------
NoTemplate == <<>>

Trait(n, pos, arg, mand, vals, src, tmpl) ==
    [name |-> n, position |-> pos, argstr |-> arg, mandatory |-> mand,
     values |-> vals, name_source |-> src, name_template |-> tmpl]

SimilarityMetrics == {<<"E", "D", "S">>, <<"G", "D", "S">>, <<"D", "D", "S">>, <<"N", "M", "I">>}

UseTransFlags == {<<"-", "-", "u", "s", "e", "T", "r", "a", "n", "s">>, <<>>}

\* RigidInputSpec with similarity_metric optional and unconstrained
RigidInputSpec_lax ==
    << Trait("fixed_file", 0, <<>>, TRUE, {}, "", NoTemplate),
       Trait("moving_file", 1, <<>>, TRUE, {}, "", NoTemplate),
       Trait("similarity_metric", 2, <<>>, FALSE, {}, "", NoTemplate) >>

RigidInputSpec ==
    << Trait("fixed_file", 0, <<>>, TRUE, {}, "", NoTemplate),
       Trait("moving_file", 1, <<>>, TRUE, {}, "", NoTemplate),
       Trait("similarity_metric", 2, <<>>, TRUE, SimilarityMetrics, "", NoTemplate) >>

AffineInputSpec ==
    << Trait("in_fixed_tensor", 0, <<>>, FALSE, {}, "", NoTemplate),
       Trait("in_moving_txt", 1, <<>>, FALSE, {}, "", NoTemplate),
       Trait("in_similarity_metric", 3, <<>>, FALSE, SimilarityMetrics, "", NoTemplate),
       Trait("in_usetrans_flag", 4, <<>>, FALSE, UseTransFlags, "", NoTemplate) >>

DiffeoInputSpec ==
    << Trait("in_fixed_tensor", 0, <<>>, FALSE, {}, "", NoTemplate),
       Trait("in_mask", 2, <<>>, FALSE, {}, "", NoTemplate),
       Trait("in_moving_txt", 1, <<>>, FALSE, {}, "", NoTemplate),
       Trait("in_numbers", 3, <<>>, FALSE, {}, "", NoTemplate) >>

\* ComposeXfmInputSpec with in_aff moved onto in_df's position
ComposeXfmInputSpec_clash ==
    << Trait("in_aff", 1, <<"-", "a", "f", "f", " ">>, FALSE, {}, "", NoTemplate),
       Trait("in_df", 1, <<"-", "d", "f", " ">>, FALSE, {}, "", NoTemplate),
       Trait("out_path", 2, <<"-", "o", "u", "t", " ">>, FALSE, {}, "in_df",
             COMBOAFF \o NII_GZ) >>

ComposeXfmInputSpec ==
    << Trait("in_aff", 0, <<"-", "a", "f", "f", " ">>, FALSE, {}, "", NoTemplate),
       Trait("in_df", 1, <<"-", "d", "f", " ">>, FALSE, {}, "", NoTemplate),
       Trait("out_path", 2, <<"-", "o", "u", "t", " ">>, FALSE, {}, "in_df",
             COMBOAFF \o NII_GZ) >>

diffeoSymTensor3DVolInputSpec ==
    << Trait("in_target", 2, <<"-", "t", "a", "r", "g", "e", "t", " ">>, FALSE, {}, "", NoTemplate),
       Trait("in_tensor", 0, <<"-", "i", "n", " ">>, FALSE, {}, "", NoTemplate),
       Trait("in_xfm", 1, <<"-", "t", "r", "a", "n", "s", " ">>, FALSE, {}, "", NoTemplate),
       Trait("out_path", 3, <<"-", "o", "u", "t", " ">>, FALSE, {}, "in_tensor",
             DIFFEOXFMD \o NII_GZ) >>

affSymTensor3DVolInputSpec ==
    << Trait("in_target", 2, <<"-", "t", "a", "r", "g", "e", "t", " ">>, FALSE, {}, "", NoTemplate),
       Trait("in_tensor", 0, <<"-", "i", "n", " ">>, FALSE, {}, "", NoTemplate),
       Trait("in_xfm", 1, <<"-", "t", "r", "a", "n", "s", " ">>, FALSE, {}, "", NoTemplate),
       Trait("out_path", 3, <<"-", "o", "u", "t", " ">>, FALSE, {}, "in_tensor",
             AFFXFMD \o NII_GZ) >>

affScalarVolInputSpec ==
    << Trait("in_target", 2, <<"-", "t", "a", "r", "g", "e", "t", " ">>, FALSE, {}, "", NoTemplate),
       Trait("in_volume", 0, <<"-", "i", "n", " ">>, FALSE, {}, "", NoTemplate),
       Trait("in_xfm", 1, <<"-", "t", "r", "a", "n", "s", " ">>, FALSE, {}, "", NoTemplate),
       Trait("out_path", 3, <<"-", "o", "u", "t", " ">>, FALSE, {}, "in_volume",
             AFFXFMD \o NII_GZ) >>

diffeoScalarVolInputSpec ==
    << Trait("in_flip", 5, <<"-", "f", "l", "i", "p", " ">>, FALSE, {}, "", NoTemplate),
       Trait("in_interp", 7, <<"-", "i", "n", "t", "e", "r", "p", " ">>, FALSE, {}, "", NoTemplate),
       Trait("in_target", 3, <<"-", "t", "a", "r", "g", "e", "t", " ">>, FALSE, {}, "", NoTemplate),
       Trait("in_type", 6, <<"-", "t", "y", "p", "e", " ">>, FALSE, {}, "", NoTemplate),
       Trait("in_volume", 0, <<"-", "i", "n", " ">>, FALSE, {}, "", NoTemplate),
       Trait("in_vsize", 4, <<"-", "v", "s", "i", "z", "e", " ">>, FALSE, {}, "", NoTemplate),
       Trait("in_xfm", 2, <<"-", "t", "r", "a", "n", "s", " ">>, FALSE, {}, "", NoTemplate),
       Trait("out_path", 1, <<"-", "o", "u", "t", " ">>, FALSE, {}, "in_volume",
             DIFFEOXFMD \o NII_GZ) >>

Tasks == {"RigidTask", "AffineTask", "DiffeoTask", "ComposeXfmTask",
          "diffeoSymTensor3DVolTask", "affSymTensor3DVolTask",
          "affScalarVolTask", "diffeoScalarVolTask"}

\* the input_spec class attribute of each task
input_spec(t) ==
    CASE t = "RigidTask" -> RigidInputSpec
      [] t = "AffineTask" -> AffineInputSpec
      [] t = "DiffeoTask" -> DiffeoInputSpec
      [] t = "ComposeXfmTask" -> ComposeXfmInputSpec
      [] t = "diffeoSymTensor3DVolTask" -> diffeoSymTensor3DVolInputSpec
      [] t = "affSymTensor3DVolTask" -> affSymTensor3DVolInputSpec
      [] t = "affScalarVolTask" -> affScalarVolInputSpec
      [] t = "diffeoScalarVolTask" -> diffeoScalarVolInputSpec

\* the fields of each task's output_spec
output_spec(t) ==
    IF t \in {"RigidTask", "AffineTask", "DiffeoTask"}
    THEN {"out_file", "out_file_xfm"} ELSE {"out_file"}

Declared(t) == {input_spec(t)[i].name : i \in 1..Len(input_spec(t))}

trait(t, n) == LET s == input_spec(t) IN s[CHOOSE i \in 1..Len(s) : s[i].name = n]

\* attribute names the task's own code or docstring uses although the input
\* spec does not declare them
Undeclared(t) ==
    CASE t = "RigidTask" -> {"in_file"}
      [] t = "diffeoScalarVolTask" -> {"in_tensor"}
      [] OTHER -> {}

\* ------------------------------------------------------------------------
\* Bounds and the inputs the model enumerates
\* ------------------------------------------------------------------------
MaxSegs == 3

Segments == {<<"a">>, <<".">>, <<"/">>, NII_GZ}

RECURSIVE PathsOfSegs(_)
PathsOfSegs(k) ==
    IF k = 0 THEN {<<>>}
    ELSE {p \o g : p \in PathsOfSegs(k - 1), g \in Segments}

\* every file name of at most MaxSegs segments (specification SpecPaths)
PathInputs == UNION {PathsOfSegs(k) : k \in 1..MaxSegs}

\* the file names specification Spec assigns: 'fa.nii.gz', 'd/fa.nii'
ExamplePaths == {<<"f", "a">> \o NII_GZ, <<"d", "/", "f", "a", ".", "n", "i", "i">>}

\* values a user may assign to out_path
OutPaths == {<<"o">> \o NII_GZ, <<"/", "o">>, <<"d", "/", ".", ".", "/", "o">>}

OtherValue == <<"x">>

BadMetric == <<"X", "Y", "Z">>

WorkDirs == {<<"/">>, <<"/", "w">>}

PrimaryInputs == {"fixed_file", "in_fixed_tensor", "in_df", "in_tensor", "in_volume"}

\* the values the model tries to assign to input n of task t
Candidates(t, n) ==
    IF n \in Undeclared(t) THEN {<<"f", "a">> \o NII_GZ}
    ELSE IF trait(t, n).values # {} THEN trait(t, n).values \cup {BadMetric}
    ELSE IF n \in PrimaryInputs THEN ExamplePaths
    ELSE IF n = "out_path" THEN OutPaths
    ELSE {OtherValue}

\* the values specification SpecPaths assigns to a file input n
PathCandidates(n) == IF n = "out_path" THEN OutPaths ELSE PathInputs

\* ------------------------------------------------------------------------
\* State
\* ------------------------------------------------------------------------
VARIABLES
    task,       \* the class of the interface object
    cwd,        \* the process's working directory
    inputs,     \* self.inputs: declared trait name -> value or Undefined
    extras,     \* attributes assigned on self.inputs that no trait declares
    old,        \* history: self.inputs at entry of the latest _list_outputs
    status,     \* outcome of the latest operation
    outputs,    \* the dictionary the latest successful _list_outputs returned
    cmdline,    \* the arguments rendered by the latest run()
    invoked     \* whether the external program has been started

vars == <<task, cwd, inputs, extras, old, status, outputs, cmdline, invoked>>

\* getattr(self.inputs, n): a declared trait, else an attribute set earlier
HasAttr(inp, ext, n) ==
    n \in DOMAIN inp \/ (n \in DOMAIN ext /\ isdefined(ext[n]))

GetAttr(inp, ext, n) == IF n \in DOMAIN inp THEN inp[n] ELSE ext[n]

NoOutputs(t) == [o \in output_spec(t) |-> Undefined]

Raised(inp) == [status |-> "error", outputs |-> <<>>, inputs |-> inp]

Returned(outs, inp) == [status |-> "ok", outputs |-> outs, inputs |-> inp]

\* ------------------------------------------------------------------------
\* _list_outputs of the eight tasks: the result of a call on inputs inp,
\* extra attributes ext and working directory cwd_
\* ------------------------------------------------------------------------
RigidTask_list_outputs(inp, ext, cwd_) ==
    IF ~HasAttr(inp, ext, "in_file") THEN Raised(inp)
    ELSE LET f == GetAttr(inp, ext, "in_file")
         IN Returned([out_file_xfm |-> Replace(f, NII_GZ, AFF),
                      out_file |-> Replace(f, NII_GZ, AFF_NII_GZ)], inp)

AffineTask_list_outputs(inp, ext, cwd_) ==
    IF ~isdefined(inp["in_fixed_tensor"]) THEN Raised(inp)
    ELSE Returned([out_file_xfm |-> Replace(inp["in_fixed_tensor"], NII_GZ, AFF),
                   out_file |-> Replace(inp["in_fixed_tensor"], NII_GZ, AFF_NII_GZ)], inp)

DiffeoTask_list_outputs(inp, ext, cwd_) ==
    IF ~isdefined(inp["in_fixed_tensor"]) THEN Raised(inp)
    ELSE Returned([out_file_xfm |-> Replace(inp["in_fixed_tensor"], NII_GZ, AFF_DIFFEO_DF_NII_GZ),
                   out_file |-> Replace(inp["in_fixed_tensor"], NII_GZ, AFF_DIFFEO_NII_GZ)], inp)

ComposeXfmTask_list_outputs(inp, ext, cwd_) ==
    IF ~isdefined(inp["in_df"]) THEN Raised(inp)
    ELSE Returned([out_file |-> Replace(inp["in_df"], DF_NII_GZ, COMBO_DF_NII_GZ)], inp)

diffeoSymTensor3DVolTask_list_outputs(inp, ext, cwd_) ==
    Returned([out_file |-> inp["out_path"]], inp)

affSymTensor3DVolTask_list_outputs(inp, ext, cwd_) ==
    IF ~isdefined(inp["out_path"]) THEN Raised(inp)
    ELSE Returned([out_file |-> abspath(cwd_, inp["out_path"])], inp)

affScalarVolTask_list_outputs(inp, ext, cwd_) ==
    IF ~isdefined(inp["out_path"]) THEN Raised(inp)
    ELSE Returned([out_file |-> abspath(cwd_, inp["out_path"])], inp)

\* a variant that recomputes out_path on every call and returns it as it is
diffeoScalarVolTask_list_outputs_overwrite(inp, ext, cwd_) ==
    IF ~isdefined(inp["in_volume"]) THEN Raised(inp)
    ELSE LET set == [inp EXCEPT !["out_path"] =
                        fname_presuffix(cwd_, inp["in_volume"], AFFXFMD, <<>>)]
         IN Returned([out_file |-> set["out_path"]], set)

diffeoScalarVolTask_list_outputs(inp, ext, cwd_) ==
    IF ~isdefined(inp["out_path"])
    THEN IF ~isdefined(inp["in_volume"]) THEN Raised(inp)
         ELSE LET set == [inp EXCEPT !["out_path"] =
                             fname_presuffix(cwd_, inp["in_volume"], DIFFEOXFMD,
                                             abspath(cwd_, <<".">>))]
              IN Returned([out_file |-> abspath(cwd_, set["out_path"])], set)
    ELSE Returned([out_file |-> abspath(cwd_, inp["out_path"])], inp)

\* dispatch of self._list_outputs() on the class of the object
list_outputs(t, inp, ext, cwd_) ==
    CASE t = "RigidTask" -> RigidTask_list_outputs(inp, ext, cwd_)
      [] t = "AffineTask" -> AffineTask_list_outputs(inp, ext, cwd_)
      [] t = "DiffeoTask" -> DiffeoTask_list_outputs(inp, ext, cwd_)
      [] t = "ComposeXfmTask" -> ComposeXfmTask_list_outputs(inp, ext, cwd_)
      [] t = "diffeoSymTensor3DVolTask" -> diffeoSymTensor3DVolTask_list_outputs(inp, ext, cwd_)
      [] t = "affSymTensor3DVolTask" -> affSymTensor3DVolTask_list_outputs(inp, ext, cwd_)
      [] t = "affScalarVolTask" -> affScalarVolTask_list_outputs(inp, ext, cwd_)
      [] t = "diffeoScalarVolTask" -> diffeoScalarVolTask_list_outputs(inp, ext, cwd_)

\* ------------------------------------------------------------------------
\* The base class: argument rendering, mandatory check, run
\* ------------------------------------------------------------------------
\* CommandLine._filename_from_source: the value rendered for trait tr
filename_from_source(tr, inp) ==
    IF isdefined(inp[tr.name]) \/ tr.name_source = "" THEN inp[tr.name]
    ELSE IF ~isdefined(inp[tr.name_source]) THEN Undefined
    ELSE split_filename(inp[tr.name_source])[2] \o tr.name_template

\* the arguments in ascending order of the keys of initial_args
RECURSIVE sorted_args(_, _)
sorted_args(keys, argAt) ==
    IF keys = {} THEN <<>>
    ELSE LET k == CHOOSE x \in keys : \A y \in keys : x <= y
         IN <<argAt[k]>> \o sorted_args(keys \ {k}, argAt)

\* CommandLine._parse_inputs: initial_args[position] = argstr % value for
\* every trait with a value, a later trait replacing an earlier one that has
\* the same position
parse_inputs(t, inp) ==
    LET spec == input_spec(t)
        value(i) == filename_from_source(spec[i], inp)
        set == {i \in 1..Len(spec) : isdefined(value(i))}
        keys == {spec[i].position : i \in set}
        last(k) == CHOOSE i \in set : /\ spec[i].position = k
                                      /\ \A j \in set : spec[j].position = k => j <= i
        initial_args == [k \in keys |-> spec[last(k)].argstr \o value(last(k))]
    IN sorted_args(keys, initial_args)

\* BaseInterface._check_mandatory_inputs passes
mandatory_inputs_set(t, inp) ==
    \A i \in 1..Len(input_spec(t)) :
        input_spec(t)[i].mandatory => isdefined(inp[input_spec(t)[i].name])

\* trait validation of the assignment self.inputs.n = v
validates(t, n, v) == trait(t, n).values = {} \/ v \in trait(t, n).values

\* ------------------------------------------------------------------------
\* Behaviour
\* ------------------------------------------------------------------------
Init ==
    /\ task \in Tasks
    /\ cwd \in WorkDirs
    /\ inputs = [n \in Declared(task) |-> Undefined]
    /\ extras = [n \in Undeclared(task) |-> Undefined]
    /\ old = inputs
    /\ status = "idle"
    /\ outputs = NoOutputs(task)
    /\ cmdline = <<>>
    /\ invoked = FALSE

\* self.inputs.n = v on a declared trait.  To bound the exploration the
\* model assigns inputs only before the first call, and reassigns only Enum
\* traits.
SetInput(n, v) ==
    /\ status \in {"idle", "TraitError"}
    /\ ~isdefined(inputs[n]) \/ trait(task, n).values # {}
    /\ IF validates(task, n, v)
       THEN inputs' = [inputs EXCEPT ![n] = v] /\ status' = "idle"
       ELSE inputs' = inputs /\ status' = "TraitError"
    /\ UNCHANGED <<task, cwd, extras, old, outputs, cmdline, invoked>>

\* self.inputs.n = v on a name no trait declares
SetExtra(n, v) ==
    /\ status \in {"idle", "TraitError"}
    /\ ~isdefined(extras[n])
    /\ extras' = [extras EXCEPT ![n] = v]
    /\ status' = "idle"
    /\ UNCHANGED <<task, cwd, inputs, old, outputs, cmdline, invoked>>

\* a direct call of self._list_outputs()
ListOutputs ==
    LET r == list_outputs(task, inputs, extras, cwd)
    IN /\ old' = inputs
       /\ inputs' = r.inputs
       /\ status' = r.status
       /\ outputs' = IF r.status = "ok" THEN r.outputs ELSE outputs
       /\ UNCHANGED <<task, cwd, extras, cmdline, invoked>>

\* run() stopped by _check_mandatory_inputs
RunRejected ==
    /\ ~invoked
    /\ ~mandatory_inputs_set(task, inputs)
    /\ status' = "ValueError"
    /\ UNCHANGED <<task, cwd, inputs, extras, old, outputs, cmdline, invoked>>

\* run(): render the command line, start the program, and when it exits
\* with code rc aggregate the outputs _list_outputs predicts; present tells
\* whether the predicted files exist
Run(rc, present) ==
    /\ ~invoked
    /\ mandatory_inputs_set(task, inputs)
    /\ cmdline' = parse_inputs(task, inputs)
    /\ invoked' = TRUE
    /\ IF rc # 0
       THEN status' = "RuntimeError" /\ UNCHANGED <<inputs, old, outputs>>
       ELSE LET r == list_outputs(task, inputs, extras, cwd)
            IN /\ old' = inputs
               /\ inputs' = r.inputs
               /\ status' = IF r.status = "error" THEN "error"
                            ELSE IF present THEN "ok" ELSE "FileNotFoundError"
               /\ outputs' = IF r.status = "ok" /\ present THEN r.outputs ELSE outputs
    /\ UNCHANGED <<task, cwd, extras>>

Next ==
    \/ \E n \in Declared(task) : \E v \in Candidates(task, n) : SetInput(n, v)
    \/ \E n \in Undeclared(task) : \E v \in Candidates(task, n) : SetExtra(n, v)
    \/ ListOutputs
    \/ RunRejected
    \/ \E rc \in {0, 1} : \E present \in BOOLEAN : Run(rc, present)

Spec == Init /\ [][Next]_vars

\* The same object driven over every file name of at most MaxSegs segments:
\* only the primary file input and out_path are assigned, and
\* _list_outputs is called directly.
NextPaths ==
    \/ \E n \in Declared(task) \cap (PrimaryInputs \cup {"out_path"}) :
          \E v \in PathCandidates(n) : SetInput(n, v)
    \/ ListOutputs

SpecPaths == Init /\ [][NextPaths]_vars

\* ------------------------------------------------------------------------
\* Properties
\* ------------------------------------------------------------------------
\* the latest operation ran _list_outputs, which returned or raised
Called == status \in {"ok", "error"}

\* s with its trailing '.nii.gz' replaced by new
SuffixSubst(s, new) == SubSeq(s, 1, Len(s) - Len(NII_GZ)) \o new

RigidMandatory == {"fixed_file", "moving_file", "similarity_metric"}

\* C1: a RigidTask whose three mandatory inputs are set completes
\* _list_outputs without error, and out_file_xfm / out_file are a declared
\* input file name with '.nii.gz' replaced by '.aff' / '_aff.nii.gz'.
C1_RigidOutputs ==
    (/\ task = "RigidTask"
     /\ Called
     /\ \A n \in RigidMandatory : isdefined(old[n]))
    => /\ status = "ok"
       /\ \E n \in {"fixed_file", "moving_file"} :
             /\ outputs["out_file_xfm"] = Replace(old[n], NII_GZ, AFF)
             /\ outputs["out_file"] = Replace(old[n], NII_GZ, AFF_NII_GZ)

\* C2: for AffineTask and DiffeoTask, when in_fixed_tensor ends in '.nii.gz'
\* each predicted output is the input with only its trailing '.nii.gz'
\* replaced, every character before it unchanged.
C2_SuffixSubstitution ==
    (/\ task \in {"AffineTask", "DiffeoTask"}
     /\ Called
     /\ EndsWith(old["in_fixed_tensor"], NII_GZ))
    => /\ status = "ok"
       /\ outputs["out_file_xfm"] =
             SuffixSubst(old["in_fixed_tensor"],
                         IF task = "AffineTask" THEN AFF ELSE AFF_DIFFEO_DF_NII_GZ)
       /\ outputs["out_file"] =
             SuffixSubst(old["in_fixed_tensor"],
                         IF task = "AffineTask" THEN AFF_NII_GZ ELSE AFF_DIFFEO_NII_GZ)

\* no two traits of an input spec share a position
PositionsDistinct ==
    \A t \in Tasks : \A i, j \in 1..Len(input_spec(t)) :
        i # j => input_spec(t)[i].position # input_spec(t)[j].position

\* trait tr contributes an argument: it has a value, or a name_source that has
Present(tr, inp) ==
    isdefined(inp[tr.name]) \/ (tr.name_source # "" /\ isdefined(inp[tr.name_source]))

\* args renders inp: one argument for each present trait, at the rank of the
\* trait's position, made of the trait's flag and value
RenderedInOrder(t, inp, args) ==
    LET spec == input_spec(t)
        present == {i \in 1..Len(spec) : Present(spec[i], inp)}
        rank(i) == 1 + Cardinality({j \in present : spec[j].position < spec[i].position})
    IN /\ Len(args) = Cardinality(present)
       /\ \A i \in present :
             /\ rank(i) <= Len(args)
             /\ StartsWith(args[rank(i)], spec[i].argstr)
             /\ isdefined(inp[spec[i].name]) => args[rank(i)] = spec[i].argstr \o inp[spec[i].name]
             /\ ~isdefined(inp[spec[i].name]) => EndsWith(args[rank(i)], spec[i].name_template)

FlagAff == <<"-", "a", "f", "f", " ">>
FlagDf == <<"-", "d", "f", " ">>
FlagOut == <<"-", "o", "u", "t", " ">>

\* C3: in each of the eight input specs no two arguments share a position,
\* and run() renders the arguments in ascending position, each with its own
\* flag; ComposeXfmTask renders -aff before -df before -out.
C3_RenderOrder ==
    [][(invoked' /\ ~invoked)
         => /\ PositionsDistinct
            /\ RenderedInOrder(task, inputs, cmdline')
            /\ (task = "ComposeXfmTask" /\ \A n \in DOMAIN inputs : isdefined(inputs[n]))
                 => cmdline' = << FlagAff \o inputs["in_aff"],
                                  FlagDf \o inputs["in_df"],
                                  FlagOut \o inputs["out_path"] >>]_vars

\* the eight flags of diffeoScalarVolTask were rendered in the order
\* -in -out -trans -target -vsize -flip -type -interp
C3_Witness ==
    /\ task = "diffeoScalarVolTask"
    /\ invoked
    /\ Len(cmdline) = 8
    /\ StartsWith(cmdline[1], <<"-", "i", "n", " ">>)
    /\ StartsWith(cmdline[2], FlagOut)
    /\ StartsWith(cmdline[3], <<"-", "t", "r", "a", "n", "s", " ">>)
    /\ StartsWith(cmdline[4], <<"-", "t", "a", "r", "g", "e", "t", " ">>)
    /\ StartsWith(cmdline[5], <<"-", "v", "s", "i", "z", "e", " ">>)
    /\ StartsWith(cmdline[6], <<"-", "f", "l", "i", "p", " ">>)
    /\ StartsWith(cmdline[7], <<"-", "t", "y", "p", "e", " ">>)
    /\ StartsWith(cmdline[8], <<"-", "i", "n", "t", "e", "r", "p", " ">>)

Transformers == {"diffeoSymTensor3DVolTask", "affSymTensor3DVolTask",
                 "affScalarVolTask", "diffeoScalarVolTask"}

\* the file input a transform-applying wrapper names as its name_source
SourceInput(t) == trait(t, "out_path").name_source

\* C4: for the four transform-applying wrappers, with the input
\* volume/tensor and in_xfm set and out_path unset, _list_outputs completes
\* without error and returns a defined out_file built from the input file
\* name by the wrapper's name_template.
C4_TemplateOutput ==
    (/\ task \in Transformers
     /\ Called
     /\ isdefined(old[SourceInput(task)])
     /\ isdefined(old["in_xfm"])
     /\ ~isdefined(old["out_path"]))
    => /\ status = "ok"
       /\ isdefined(outputs["out_file"])
       /\ EndsWith(outputs["out_file"], trait(task, "out_path").name_template)

\* C5: RigidTask: the external program is started only with fixed_file,
\* moving_file and similarity_metric set and the metric one of EDS, GDS,
\* DDS, NMI; run() with one of them unset ends in an error before the
\* program is started; a rejected assignment leaves every input as it was.
C5_RigidMandatory ==
    [][task = "RigidTask"
         => /\ (invoked' /\ ~invoked)
                 => /\ \A n \in RigidMandatory : isdefined(inputs[n])
                    /\ inputs["similarity_metric"] \in SimilarityMetrics
            /\ status' = "ValueError"
                 => /\ \E n \in RigidMandatory : ~isdefined(inputs[n])
                    /\ ~invoked'
            /\ status' = "TraitError" => (inputs' = inputs /\ invoked' = invoked)
            /\ inputs'["similarity_metric"] \in SimilarityMetrics \cup {Undefined}]_vars

\* run() of a RigidTask without similarity_metric was refused
C5_Witness ==
    /\ task = "RigidTask"
    /\ status = "ValueError"
    /\ ~invoked
    /\ isdefined(inputs["fixed_file"])
    /\ isdefined(inputs["moving_file"])
    /\ ~isdefined(inputs["similarity_metric"])

\* the extension split_filename keeps: '.nii.gz' of a longer name, else the
\* text from the last dot that follows a character other than a dot
OriginalExtension(b) ==
    IF Len(b) > Len(NII_GZ) /\ EndsWith(b, NII_GZ) THEN NII_GZ
    ELSE LET dots == {i \in 2..Len(b) : b[i] = "." /\ \E j \in 1..(i - 1) : b[j] # "."}
         IN IF dots = {} THEN <<>>
            ELSE SubSeq(b, CHOOSE i \in dots : \A j \in dots : j <= i, Len(b))

\* the base name of f with '_diffeoxfmd' before its extension, in directory d
PresuffixedIn(d, f) ==
    LET b == basename(f)
        e == OriginalExtension(b)
        stem == SubSeq(b, 1, Len(b) - Len(e))
    IN (IF d = <<"/">> THEN d ELSE d \o <<"/">>) \o stem \o DIFFEOXFMD \o e

\* r is an absolute path without empty, '.' or '..' components
CleanAbsolute(r) ==
    /\ isabs(r)
    /\ \A i \in 2..Len(Split(r)) : Split(r)[i] \notin {<<>>, <<".">>, <<".", ".">>}

\* the two cases of diffeoScalarVolTask._list_outputs
C6_Undefined(requireVolume) ==
    (/\ task = "diffeoScalarVolTask"
     /\ Called
     /\ ~isdefined(old["out_path"])
     /\ requireVolume => isdefined(old["in_volume"]))
    => /\ status = "ok"
       /\ inputs["out_path"] = PresuffixedIn(cwd, old["in_volume"])
       /\ outputs["out_file"] = inputs["out_path"]
       /\ CleanAbsolute(outputs["out_file"])

C6_Defined ==
    (/\ task = "diffeoScalarVolTask"
     /\ Called
     /\ isdefined(old["out_path"]))
    => /\ status = "ok"
       /\ inputs["out_path"] = old["out_path"]
       /\ outputs["out_file"] = abspath(cwd, old["out_path"])
       /\ CleanAbsolute(outputs["out_file"])

ListOutputsRan == status' \in {"ok", "error", "FileNotFoundError"}

\* C7: diffeoScalarVolTask._list_outputs never overwrites a defined out_path
\* and changes no other input; _list_outputs of the other seven tasks
\* changes no input.
C7_Frame ==
    [][ListOutputsRan
         => /\ extras' = extras
            /\ IF task = "diffeoScalarVolTask"
               THEN /\ \A n \in DOMAIN inputs \ {"out_path"} : inputs'[n] = inputs[n]
                    /\ isdefined(inputs["out_path"]) => inputs'["out_path"] = inputs["out_path"]
               ELSE inputs' = inputs]_vars

\* diffeoScalarVolTask._list_outputs returned with the user's out_path kept
C7_Witness ==
    /\ task = "diffeoScalarVolTask"
    /\ status = "ok"
    /\ old["out_path"] \in OutPaths
    /\ isdefined(old["in_volume"])
    /\ inputs = old

====
